---------------------------- MODULE Spec2Model ----------------------------
(***************************************************************************)
(* Backend connection router and fleet autoscaler of the serverless proxy  *)
(* (pkg/tidb/proxy/backend/cluster.go and the proxy part of the server):   *)
(* pools of backend descriptors, membership operations, the health sweep   *)
(* and the scale-in / scale-out loop.                                      *)
(*                                                                         *)
(* Strings are sequences of one-character strings, so that strings.Split,  *)
(* strings.Trim and strconv.ParseFloat are computed as the code computes   *)
(* them.  Weights are fixed-point numbers in tenths (4.0 is 40).           *)
(* *DB pointers are indices into heap; the nil pointer is Nil.             *)
(***************************************************************************)
EXTENDS Integers, Sequences, FiniteSets, TLC

(***************************************************************************)
(* Bounds of the model                                                     *)
(***************************************************************************)
\* number of *DB objects that can be live at once
MaxObj == 4
\* the clock runs from 0 to MaxTime seconds
MaxTime == 2
\* TidbsWeights is not extended beyond this length
MaxWeights == 3
\* number of administrative calls in a run without the health sweep
MaxCalls == 3
\* number of administrative calls in a run with the health sweep or with
\* the autoscale loop
MaxSideCalls == 1
\* CheckClusterSilence takes no more than this many quiet samples in a row
MaxRun == 30
\* number of request handlers that ask for a token
MaxHandlers == 3

(***************************************************************************)
(* Constants of the program                                                *)
(***************************************************************************)
TiDBForTP == "tp"
TiDBForAP == "ap"
TidbSplit == ","
WeightSplit == "@"
PoolNames == {TiDBForTP, TiDBForAP}

\* liveness states of a DB
Up == "Up"
Down == "Down"
ManualDown == "ManualDown"

\* the nil *DB
Nil == 0
ObjIds == 1..MaxObj

(***************************************************************************)
(* Strings                                                                 *)
(***************************************************************************)
StrSelf == <<"s", "e", "l", "f">>
\* pod a and pod b of service p in namespace n
HostA == <<"a", ".", "p", ".", "n">>
HostB == <<"b", ".", "p", ".", "n">>
Digits == <<"0", "1", "2", "3", "4", "5", "6", "7", "8", "9">>

IsDigit(c) == \E i \in 1..10 : Digits[i] = c
DigitVal(c) == (CHOOSE i \in 1..10 : Digits[i] = c) - 1

RECURSIVE SplitAcc(_, _, _, _, _)
SplitAcc(s, sep, i, cur, acc) ==
    IF i > Len(s) THEN Append(acc, cur)
    ELSE IF s[i] = sep THEN SplitAcc(s, sep, i + 1, <<>>, Append(acc, cur))
    ELSE SplitAcc(s, sep, i + 1, Append(cur, s[i]), acc)

\* strings.Split(s, sep) for a one-character separator: n separators give
\* n+1 parts, empty parts included
Split(s, sep) == SplitAcc(s, sep, 1, <<>>, <<>>)

RECURSIVE TrimLeft(_, _)
TrimLeft(s, c) == IF Len(s) > 0 /\ s[1] = c THEN TrimLeft(Tail(s), c) ELSE s

RECURSIVE TrimRight(_, _)
TrimRight(s, c) ==
    IF Len(s) > 0 /\ s[Len(s)] = c THEN TrimRight(SubSeq(s, 1, Len(s) - 1), c) ELSE s

\* strings.Trim(s, cutset) for a one-character cutset
Trim(s, c) == TrimRight(TrimLeft(s, c), c)

RECURSIVE DigitsVal(_, _)
DigitsVal(s, acc) == IF s = <<>> THEN acc ELSE DigitsVal(Tail(s), 10 * acc + DigitVal(s[1]))

AllDigits(s) == \A i \in 1..Len(s) : IsDigit(s[i])

\* strconv.ParseFloat(s, 64) on decimal literals [+-]digits[.digits]; the
\* value is in tenths (one fractional digit is kept).  Anything else is a
\* syntax error.
ParseFloat(s) ==
    LET neg == Len(s) > 0 /\ s[1] = "-"
        body == IF Len(s) > 0 /\ s[1] \in {"-", "+"} THEN Tail(s) ELSE s
        parts == Split(body, ".")
        ip == parts[1]
        fp == IF Len(parts) = 2 THEN parts[2] ELSE <<>>
        wellFormed == /\ Len(parts) <= 2
                      /\ AllDigits(ip) /\ AllDigits(fp)
                      /\ Len(ip) + Len(fp) > 0
        mag == 10 * DigitsVal(ip, 0) + (IF Len(fp) > 0 THEN DigitVal(fp[1]) ELSE 0)
    IN  IF wellFormed THEN [ok |-> TRUE, val |-> IF neg THEN 0 - mag ELSE mag]
        ELSE [ok |-> FALSE, val |-> 0]

\* "weight = 1" in tenths
DefaultWeight == 10


(***************************************************************************)
(* Inputs                                                                  *)
(***************************************************************************)
\* address strings handed to AddTidb
AddrInputs ==
    { HostA \o <<"@", "2">>,                   \* "a.p.n@2"
      HostB,                                   \* "b.p.n"
      HostB \o <<"@", "x">>,                   \* "b.p.n@x"
      StrSelf,                                 \* "self"
      StrSelf \o <<"@", "4", ".", "0">>,       \* "self@4.0"
      <<>> }                                   \* ""

\* address strings handed to AddTidb with weights of every kind: zero,
\* negative, not a number, none
WeightInputs ==
    { HostB \o <<"@", "0">>,                   \* "b.p.n@0"
      HostB \o <<"@", "-", "1">>,              \* "b.p.n@-1"
      HostB \o <<"@", "x">>,                   \* "b.p.n@x"
      HostB \o <<"@", "3">>,                   \* "b.p.n@3"
      HostB }                                  \* "b.p.n"

\* addresses handed to DeleteTidb, UpTidb and DownTidb
AddrKeys == { HostA, HostB, StrSelf }

\* lists handed to ParseTidbs, as MakeTidbs writes them (every entry is
\* followed by a comma)
TidbLists(dbType) ==
    IF dbType = TiDBForTP
    THEN { StrSelf \o <<"@", "4", ".", "0", ",">> \o HostA \o <<"@", "2", ",">>,
           StrSelf \o <<"@", "4", ".", "0", ",">> \o StrSelf \o <<"@", "4", ".", "0", ",">>,
           HostA \o <<"@", ",">> }
    ELSE { <<>>, HostB \o <<"@", "3", ",">> }

\* the pools that administrative calls address; the ap pool is filled by
\* parseCluster only
OperPools == {TiDBForTP}

\* samples of pool.Costs + ProxyNode.ProxyCost and of counter.OldClientQPS
CostSamples == {9999, 10000}
QPSSamples == {99, 100}

\* the length of the window in which the properties count scale-in requests
Window == 15

\* values of cfg.DownAfterNoAlive, in seconds
DownAfterChoices == {0, 1}

\* what AddTidb computes from its addr argument, tabulated per input
AddrParts ==
    [a \in AddrInputs \cup WeightInputs |->
        LET aw == Split(a, WeightSplit)
        IN  [addrAndWeight |-> aw,
             podArr |-> Split(a, <<".">>[1]),
             pf |-> IF Len(aw) = 2 THEN ParseFloat(aw[2])
                    ELSE [ok |-> TRUE, val |-> DefaultWeight]]]

\* strings.Split(v.addr, WeightSplit)[0] for the addr of a DB
AddrOnly == [a \in AddrKeys |-> Split(a, WeightSplit)[1]]

(***************************************************************************)
(* State                                                                   *)
(***************************************************************************)
VARIABLES
    Tidbs,            \* Pool.Tidbs of each pool: a sequence of *DB
    TidbsNil,         \* whether Pool.Tidbs is the nil slice
    TidbsWeights,     \* Pool.TidbsWeights of each pool
    RoundRobinQ,      \* Pool.RoundRobinQ of each pool
    heap,             \* the DB objects
    ProxyAsCompute,   \* Cluster.ProxyNode.ProxyAsCompute
    DownAfterNoAlive, \* Cluster.DownAfterNoAlive, in seconds
    Online,           \* Cluster.Online
    now,              \* time.Now().Unix()
    crashed,          \* a goroutine panicked: the process is gone
    boot,             \* position of parseCluster
    ret,              \* the last administrative call and what it returned
    sweep,            \* locals of the CheckCluster goroutine
    oper,             \* locals of the administrative caller
    calls,            \* number of administrative calls made
    count,            \* local count of CheckClusterSilence
    scale,            \* what CheckClusterSilence did on its last tick
    hist,             \* history of the run, read by the properties only
    limiter,          \* the server's token limiter and its clients
    lk                \* the pools' RWMutex and where each goroutine is in
                      \* its lock regions

vars == << Tidbs, TidbsNil, TidbsWeights, RoundRobinQ, heap, ProxyAsCompute,
           DownAfterNoAlive, Online, now, crashed, boot, ret, sweep, oper,
           calls, count, scale, hist, limiter, lk >>

(***************************************************************************)
(* DB objects                                                              *)
(***************************************************************************)
FreeObj == [live |-> FALSE, addr |-> <<>>, Self |-> FALSE, state |-> Up,
            lastPing |-> 0, dbType |-> "", weight |-> 0]

\* Open(addr, user, password, "", weight) when the dial succeeds
NewDB(addr, weight, t) ==
    [live |-> TRUE, addr |-> addr, Self |-> FALSE, state |-> Up,
     lastPing |-> t, dbType |-> "", weight |-> weight]

\* &DB{addr: addr, Self: true}: every other field has its zero value
SelfDB(addr) ==
    [live |-> TRUE, addr |-> addr, Self |-> TRUE, state |-> Up,
     lastPing |-> 0, dbType |-> "", weight |-> 0]

HasFree(h) == \E i \in ObjIds : ~h[i].live
Alloc(h) == CHOOSE i \in ObjIds : ~h[i].live

SeqRange(s) == { s[i] : i \in 1..Len(s) }
MinOf(S) == CHOOSE x \in S : \A y \in S : x <= y
MaxOf(S) == CHOOSE x \in S : \A y \in S : x >= y

RECURSIVE MapSeq(_, _)
MapSeq(s, f) == IF s = <<>> THEN <<>> ELSE <<f[s[1]]>> \o MapSeq(Tail(s), f)

RECURSIVE Distinct(_, _)
\* the elements of s other than Nil, each once, in the order of s
Distinct(s, acc) ==
    IF s = <<>> THEN acc
    ELSE Distinct(Tail(s), IF s[1] = Nil \/ s[1] \in SeqRange(acc) THEN acc
                           ELSE Append(acc, s[1]))

\* The step's new pools, goroutine locals and heap become the next state.
\* Objects that nothing refers to any more are collected, and the others
\* are numbered in the order in which the pools and the locals refer to
\* them (a pointer's value carries no meaning of its own).
Commit(T, sw, op, h) ==
    LET order == Distinct(T[TiDBForTP] \o T[TiDBForAP] \o sw.snap
                            \o << sw.new, sw.tgt, op.new, op.tgt >>, <<>>)
        Ren == [id \in 0..MaxObj |->
                  IF id \in SeqRange(order)
                  THEN CHOOSE k \in 1..Len(order) : order[k] = id ELSE Nil]
    IN  /\ Tidbs' = [p \in PoolNames |-> MapSeq(T[p], Ren)]
        /\ sweep' = [sw EXCEPT !.snap = MapSeq(@, Ren), !.new = Ren[@], !.tgt = Ren[@]]
        /\ oper' = [op EXCEPT !.new = Ren[@], !.tgt = Ren[@]]
        /\ heap' = [k \in ObjIds |-> IF k <= Len(order) THEN h[order[k]] ELSE FreeObj]

SamePointers == UNCHANGED << Tidbs, sweep, oper, heap >>

(***************************************************************************)
(* The selection table                                                     *)
(***************************************************************************)
\* Pool.InitBalancer: the table is rebuilt from TidbsWeights; it is kept
\* as the share of each index of Tidbs
InitBalancer(weights) == weights

(***************************************************************************)
(* Initial state: parseCluster has made the Cluster and its two pools      *)
(***************************************************************************)
SweepIdle == [pc |-> "sleep", pools |-> <<>>, pool |-> TiDBForTP, snap |-> <<>>,
              i |-> 0, new |-> Nil, tgt |-> Nil, err |-> FALSE]
OperIdle == [pc |-> "idle", addr |-> <<>>, pool |-> TiDBForTP, state |-> Up,
             new |-> Nil, tgt |-> Nil, err |-> FALSE]
NoRet == [op |-> "none", res |-> "nil"]
\* what the last tick of CheckClusterSilence did: the requests it sent, whether
\* the sample was quiet, the len(tppool.Tidbs) it read, the number of
\* members of the tp pool that are not self, and the number of samples
\* since the scale-in request before (Window: that many or more, or none)
NoScale == [in |-> FALSE, out |-> FALSE, quiet |-> FALSE, n |-> 0, nonself |-> 0,
            since |-> 0, sent |-> 0, err |-> FALSE, pc |-> "sleep"]
\* the goroutines that take the pools' locks: the health sweep, two
\* administrative callers and the autoscale loop
Threads == { "sweep", "adminA", "adminB", "scale" }
\* no lock is held (w: the holder of the exclusive lock of each pool; r: the
\* holders of its shared lock), and every goroutine is outside its calls
NoLocks == [w |-> [p \in PoolNames |-> "none"], r |-> [p \in PoolNames |-> {}],
            th |-> [t \in Threads |-> [pc |-> "idle", pool |-> TiDBForTP]]]
\* the request handlers, and the server's token limiter before NewServer
\* made it: the size it was made with, the number of tokens in its channel,
\* the value of metrics.TokenGauge, and where each handler is
Handlers == 1..MaxHandlers
NoLimiter == [made |-> FALSE, count |-> 0, ch |-> 0, gauge |-> 0,
              pc |-> [h \in Handlers |-> "idle"]]
\* a GetTidbConn: what it returned, the pool it selected from, whether it
\* selected a DB and the Self, state and dbType = BigCost of that DB, whether
\* it dialled (newConn), whether it took a connection of the DB's pool of
\* connections (GetConn), and the number of administrative calls before it
NoConn == [res |-> "none", pool |-> TiDBForTP, db |-> FALSE, Self |-> FALSE,
           state |-> Up, big |-> FALSE, dial |-> FALSE, checkout |-> FALSE,
           seq |-> 0]
\* history of the run:
\*   removed  the addresses that DeleteTidb took out of each pool and that
\*            AddTidb has not added again
\*   manual   the << pool, address >> pairs that an administrative
\*            DownTidb(addr, ManualDown) has marked and that no
\*            administrative call has changed since
\*   failT    per address, the time of the first failed probe of the
\*            backend, found Up, since the last probe that was answered
\*            (-1: none)
\*   watch    the << pool, address >> pairs that were Down when the sweep in
\*            progress (or the last sweep) started; emptied when a probe
\*            fails or an administrative call acts
\*   run      the number of consecutive quiet samples of CheckClusterSilence
\*   ins      the number of scale-in requests in the present run
\*   gap      the number of samples since the last scale-in request
\*            (Window: that many or more, or no request yet)
\*   conn     what the last GetTidbConn did (NoConn: none yet)
\* no drain: CanDelete was never called
NoDrain == [checks |-> 0, zero |-> FALSE]

\* no AddTidb that admitted a member was the last administrative call
NoRound == [addr |-> <<>>, pool |-> TiDBForTP, dbs |-> <<>>, weights |-> <<>>,
            del |-> FALSE]

NoHist == [removed |-> [p \in PoolNames |-> {}], manual |-> {},
           failT |-> [a \in {HostA, HostB} |-> 0 - 1], watch |-> {},
           run |-> 0, ins |-> 0, gap |-> Window, conn |-> NoConn,
           drain |-> NoDrain, round |-> NoRound]

Init ==
    /\ Tidbs = [p \in PoolNames |-> <<>>]
    /\ TidbsNil = [p \in PoolNames |-> TRUE]
    /\ TidbsWeights = [p \in PoolNames |-> <<>>]
    /\ RoundRobinQ = [p \in PoolNames |-> <<>>]
    /\ heap = [i \in ObjIds |-> FreeObj]
    /\ ProxyAsCompute = TRUE
    /\ DownAfterNoAlive \in DownAfterChoices
    /\ Online = FALSE
    /\ now = 0
    /\ crashed = FALSE
    /\ boot = 0
    /\ ret = NoRet
    /\ sweep = SweepIdle
    /\ oper = OperIdle
    /\ calls = 0
    /\ count = 0
    /\ scale = NoScale
    /\ hist = NoHist
    /\ limiter = NoLimiter
    /\ lk = NoLocks

(***************************************************************************)
(* Helpers of the operations                                               *)
(***************************************************************************)
\* a loop "for _, v := range tidbs { if v.addr ... { ... } }" stops at the
\* first entry whose addr is one of addrs or that is nil (v.addr panics
\* there); 0 when it runs to the end
Hit(tidbs, h, addrs) ==
    LET S == { i \in 1..Len(tidbs) : tidbs[i] = Nil \/ h[tidbs[i]].addr \in addrs }
    IN  IF S = {} THEN 0 ELSE MinOf(S)

RECURSIVE KeepIf(_, _, _)
\* the entries of s at the indices in I, in order
KeepIf(s, I, i) ==
    IF i > Len(s) THEN <<>>
    ELSE (IF i \in I THEN <<s[i]>> ELSE <<>>) \o KeepIf(s, I, i + 1)

Returned(op, res) == [op |-> op, res |-> res]

Running == boot = 3 /\ ~crashed

\* an administrative caller may start a call, the n-th of the run at most
CanCall(n) == Running /\ oper.pc = "idle" /\ calls < n

\* the pool p as an operation leaves it when it changes nothing
SamePool(p) == [Tidbs |-> Tidbs[p], TidbsNil |-> TidbsNil[p],
                TidbsWeights |-> TidbsWeights[p], RoundRobinQ |-> RoundRobinQ[p]]

\* the pool p takes the fields of o (an operation's outcome); the pointers
\* of Tidbs are committed separately
SetPool(p, o) ==
    /\ TidbsNil' = [TidbsNil EXCEPT ![p] = o.TidbsNil]
    /\ TidbsWeights' = [TidbsWeights EXCEPT ![p] = o.TidbsWeights]
    /\ RoundRobinQ' = [RoundRobinQ EXCEPT ![p] = o.RoundRobinQ]

(***************************************************************************)
(* Pool.ParseTidbs, called by parseCluster for tp and then for ap          *)
(***************************************************************************)
RECURSIVE ParseLoop(_, _, _, _, _)
\* the loop of ParseTidbs from entry i on; opens[i] tells whether Open
\* succeeds for entry i
ParseLoop(arr, i, opens, dbType, st) ==
    IF i > Len(arr) THEN st
    ELSE
      LET aw == Split(arr[i], WeightSplit)
          pf == IF Len(aw) = 2 THEN ParseFloat(aw[2])
                ELSE [ok |-> TRUE, val |-> DefaultWeight]
          w1 == Append(st.TidbsWeights, pf.val)
          id == Alloc(st.heap)
      IN  IF ~pf.ok THEN [st EXCEPT !.res = "ErrSyntax"]
          ELSE IF aw[1] # StrSelf /\ ~opens[i]
          THEN ParseLoop(arr, i + 1, opens, dbType, [st EXCEPT !.TidbsWeights = w1])
          ELSE IF ~HasFree(st.heap) THEN [st EXCEPT !.full = TRUE]
          ELSE
            LET db == IF aw[1] = StrSelf THEN SelfDB(aw[1])
                      ELSE NewDB(aw[1], pf.val, now)
            IN  ParseLoop(arr, i + 1, opens, dbType,
                    [st EXCEPT !.TidbsWeights = w1,
                               !.Tidbs = Append(@, id),
                               !.TidbsNil = FALSE,
                               !.heap = [@ EXCEPT ![id] = [db EXCEPT !.dbType = dbType]]])

\* ParseTidbs(list, dbType, cfg): what it returns and the pool it leaves
ParseTidbs(list, dbType, opens) ==
    LET arr == Split(Trim(list, TidbSplit), TidbSplit)
        st0 == [res |-> "nil", full |-> FALSE, heap |-> heap] @@ SamePool(dbType)
        st == ParseLoop(arr, 1, opens, dbType, st0)
    IN  IF Len(list) = 0 THEN st0
        ELSE IF st.res = "nil" /\ ~st.full
        THEN [st EXCEPT !.RoundRobinQ = InitBalancer(st.TidbsWeights)]
        ELSE st

\* parseCluster: the loop over norms = {tp, ap}
BootParse ==
    /\ boot \in {0, 1}
    /\ UNCHANGED << ProxyAsCompute, DownAfterNoAlive, Online, now, crashed,
                    calls, count, scale, hist, limiter, lk >>
    /\ LET dbType == IF boot = 0 THEN TiDBForTP ELSE TiDBForAP
       IN  \E list \in TidbLists(dbType) : \E opens \in [1..2 -> BOOLEAN] :
             LET o == ParseTidbs(list, dbType, opens)
             IN  /\ ~o.full
                 /\ Len(o.TidbsWeights) <= MaxWeights
                 /\ SetPool(dbType, o)
                 /\ ret' = Returned("ParseTidbs", o.res)
                 \* parseCluster returns the error of ParseTidbs: no cluster
                 /\ boot' = IF o.res = "nil" THEN boot + 1 ELSE 4
                 /\ Commit([Tidbs EXCEPT ![dbType] = o.Tidbs], sweep, oper, o.heap)

\* parseCluster: cluster.Online = true; go cluster.CheckCluster()
BootStart ==
    /\ boot = 2
    /\ boot' = 3
    /\ Online' = TRUE
    /\ UNCHANGED << Tidbs, TidbsNil, TidbsWeights, RoundRobinQ, heap,
                    ProxyAsCompute, DownAfterNoAlive, now,
                    crashed, ret, sweep, oper, calls, count, scale, hist,
                    limiter, lk >>

\* the DBs that the entries of Tidbs of pool p point to
MemberDBs(p) ==
    [i \in 1..Len(Tidbs[p]) |->
        IF Tidbs[p][i] = Nil THEN FreeObj ELSE heap[Tidbs[p][i]]]

(***************************************************************************)
(* Cluster.AddTidb                                                         *)
(***************************************************************************)
\* GetOnePod: whether the pod is found and not marked predelete is the
\* platform's answer
GetOnePod == BOOLEAN

\* cluster.OpenDB: whether the dial succeeds is the network's answer
OpenDB == BOOLEAN

\* AddTidb(addr, tidbType): what it returns ("panic" when it panics) and
\* what it leaves: the pool, ProxyAsCompute, and the DB it made (in new)
AddTidbCall(addr, tidbType, pod, open) ==
    LET tidbs == Tidbs[tidbType]
        aw == AddrParts[addr].addrAndWeight
        hit == Hit(tidbs, heap, { a \in AddrKeys : AddrOnly[a] = aw[1] })
        podArr == AddrParts[addr].podArr
        pf == AddrParts[addr].pf
        db == IF aw[1] = StrSelf THEN SelfDB(aw[1]) ELSE NewDB(aw[1], pf.val, now)
        w1 == Append(TidbsWeights[tidbType], pf.val)
        same == [ProxyAsCompute |-> ProxyAsCompute, added |-> FALSE, new |-> FreeObj]
                  @@ SamePool(tidbType)
    IN  IF Len(addr) = 0
        THEN [res |-> "ErrAddressNull"] @@ same
        ELSE IF hit # 0
        THEN \* v.addr of a nil entry, or the address is there
             [res |-> IF tidbs[hit] = Nil THEN "panic" ELSE "ErrTidbExist"] @@ same
        ELSE IF Len(podArr) < 3
        THEN \* podArr[2]: index out of range
             [res |-> "panic"] @@ same
        ELSE IF ~pod
        THEN [res |-> "nil"] @@ same
        ELSE IF ~pf.ok
        THEN [res |-> "ErrSyntax"] @@ same
        ELSE IF aw[1] # StrSelf /\ ~open
        THEN [res |-> "ErrOpen", TidbsWeights |-> w1] @@ same
        ELSE [res |-> "nil", TidbsWeights |-> w1, TidbsNil |-> FALSE,
              RoundRobinQ |-> InitBalancer(w1), added |-> TRUE,
              ProxyAsCompute |-> (ProxyAsCompute \/ aw[1] = StrSelf),
              new |-> [db EXCEPT !.dbType = tidbType]] @@ same

AddTidbOf(addrs, n) ==
    /\ CanCall(n)
    /\ calls' = calls + 1
    /\ UNCHANGED << DownAfterNoAlive, Online, now, boot, count, scale, limiter, lk >>
    /\ \E addr \in addrs : \E tidbType \in OperPools :
       \E pod \in GetOnePod : \E open \in OpenDB :
         LET o == AddTidbCall(addr, tidbType, pod, open)
             id == Alloc(heap)
         IN  /\ Len(o.TidbsWeights) <= MaxWeights
             /\ o.added => HasFree(heap)
             /\ SetPool(tidbType, o)
             /\ ProxyAsCompute' = o.ProxyAsCompute
             /\ ret' = Returned("AddTidb", o.res)
             /\ crashed' = (o.res = "panic")
             /\ hist' = [hist EXCEPT
                          !.removed[tidbType] = IF o.added THEN @ \ {o.new.addr} ELSE @,
                          !.watch = {},
                          !.round = IF o.added
                                    THEN [addr |-> addr, pool |-> tidbType,
                                          dbs |-> MemberDBs(tidbType),
                                          weights |-> TidbsWeights[tidbType],
                                          del |-> FALSE]
                                    ELSE NoRound]
             /\ IF o.added
                THEN Commit([Tidbs EXCEPT ![tidbType] = Append(@, id)], sweep, oper,
                            [heap EXCEPT ![id] = o.new])
                ELSE SamePointers

AddTidb == AddTidbOf(AddrInputs, MaxCalls)

(***************************************************************************)
(* Cluster.DeleteTidb and Pool.InitBalancerAfterDeleteTidb                 *)
(***************************************************************************)
\* if TidbCount == 1: the DB found is the only entry
NoSoleMember(TidbCount) == FALSE
SoleMember(TidbCount) == TidbCount = 1

\* InitBalancerAfterDeleteTidb(addr) on pool p: what it returns and the
\* pool it leaves
InitBalancerAfterDeleteTidb(addr, p) ==
    LET tidbs == Tidbs[p]
        TidbCount == Len(tidbs)
        hit == Hit(tidbs, heap, {addr})
        keep == { i \in 1..TidbCount : tidbs[i] # Nil /\ heap[tidbs[i]].addr # addr }
        \* the second loop reads .addr of every entry and TidbsWeights[i]
        \* of every entry it keeps
        fault == \/ \E i \in 1..TidbCount : tidbs[i] = Nil
                 \/ \E i \in keep : i > Len(TidbsWeights[p])
        sw == KeepIf(TidbsWeights[p], keep, 1)
        same == [removed |-> FALSE, he3db |-> FALSE] @@ SamePool(p)
    IN  IF TidbCount = 0
        THEN [res |-> "ErrNoTidbDB"] @@ same
        ELSE IF hit = 0
        THEN [res |-> "ErrTidbNotExist"] @@ same
        ELSE IF tidbs[hit] = Nil
        THEN [res |-> "panic"] @@ same
        ELSE IF SoleMember(TidbCount)
        THEN \* return nil, nil: the caller gets no DB
             [res |-> "nil", removed |-> TRUE, he3db |-> FALSE, Tidbs |-> <<>>,
              TidbsNil |-> TRUE, TidbsWeights |-> <<>>, RoundRobinQ |-> <<>>]
        ELSE IF fault
        THEN [res |-> "panic"] @@ same
        ELSE [res |-> "nil", removed |-> TRUE, he3db |-> TRUE,
              Tidbs |-> KeepIf(tidbs, keep, 1),
              TidbsNil |-> FALSE, TidbsWeights |-> sw, RoundRobinQ |-> InitBalancer(sw)]

\* util.Retry(1*time.Second, 30, CanDelete): the number of attempts
RetryAttempts == 30

\* the first attempt at which CanDelete reads usingConnsCount = 0, 0 when
\* the count stays positive for longer than the drain tries
DrainSamples == {0, 1, RetryAttempts}

\* util.Retry(1*time.Second, 30, CanDelete): CanDelete is called until it
\* returns true, RetryAttempts times at most
Retry(first) ==
    IF first >= 1 /\ first <= RetryAttempts
    THEN [checks |-> first, zero |-> TRUE]
    ELSE [checks |-> RetryAttempts, zero |-> FALSE]

\* DeleteTidb after InitBalancerAfterDeleteTidb returned o: it returns the
\* error, returns nil when he3db is nil, and drains otherwise
Drained(o, first) == IF o.res = "nil" /\ o.he3db THEN Retry(first) ELSE NoDrain

DeleteTidbOf(keys, n) ==
    /\ CanCall(n)
    /\ calls' = calls + 1
    /\ UNCHANGED << ProxyAsCompute, DownAfterNoAlive, Online, now, boot, count, scale,
                    limiter, lk >>
    /\ \E addr \in keys : \E tidbType \in OperPools : \E first \in DrainSamples :
         LET o == InitBalancerAfterDeleteTidb(addr, tidbType)
         IN  /\ SetPool(tidbType, o)
             /\ ret' = Returned("DeleteTidb", o.res)
             /\ crashed' = (o.res = "panic")
             /\ hist' = [hist EXCEPT
                          !.removed[tidbType] = IF o.removed THEN @ \cup {addr} ELSE @,
                          !.manual = IF o.removed THEN @ \ {<< tidbType, addr >>} ELSE @,
                          !.watch = {},
                          !.drain = Drained(o, first),
                          !.round = IF /\ ~@.del /\ @.addr = addr /\ Len(addr) > 0
                                       /\ @.pool = tidbType
                                    THEN [@ EXCEPT !.del = TRUE] ELSE NoRound]
             /\ Commit([Tidbs EXCEPT ![tidbType] = o.Tidbs], sweep, oper, heap)

DeleteTidb == DeleteTidbOf(AddrKeys, MaxCalls)

(***************************************************************************)
(* Pool.UpDB, Pool.UpTidb and Pool.DownTidb, as called by an               *)
(* administrative caller and by checkTidbs.  Each is two steps: what it    *)
(* does before it takes the pool lock, and what it does under the lock     *)
(* (UpTidb) or after it released the read lock (DownTidb).                 *)
(***************************************************************************)
\* db.Ping(), and Open followed by db.Ping() in UpDB: the network's answer
Ping == BOOLEAN

\* UpDB reads the weight of addr from Tidbs and TidbsWeights; the loop has
\* no break: it reads .addr of every entry
UpDBWeight(addr, p) ==
    LET tidbs == Tidbs[p]
        M == { i \in 1..Len(tidbs) : tidbs[i] # Nil /\ heap[tidbs[i]].addr = addr }
    IN  [panic |-> \/ \E i \in 1..Len(tidbs) : tidbs[i] = Nil
                   \/ \E i \in M : i > Len(TidbsWeights[p]),
         weight |-> IF M = {} \/ MaxOf(M) > Len(TidbsWeights[p]) THEN DefaultWeight
                    ELSE TidbsWeights[p][MaxOf(M)]]

\* the DB that UpDB returns when Open and Ping succeed
UpDB(addr, p) == [NewDB(addr, UpDBWeight(addr, p).weight, now) EXCEPT !.state = Up]

\* UpTidb under the lock: db replaces the first entry with this addr, or
\* is appended
UpTidbLocked(addr, p, db, err) ==
    LET tidbs == Tidbs[p]
        hit == Hit(tidbs, heap, {addr})
    IN  IF hit # 0 /\ tidbs[hit] = Nil
        THEN [res |-> "panic", Tidbs |-> tidbs, TidbsNil |-> TidbsNil[p]]
        ELSE IF hit # 0
        THEN [res |-> "nil", Tidbs |-> [tidbs EXCEPT ![hit] = db], TidbsNil |-> FALSE]
        ELSE [res |-> IF err THEN "ErrOpen" ELSE "nil", Tidbs |-> Append(tidbs, db),
              TidbsNil |-> FALSE]

\* DownTidb under the read lock: the copy of Tidbs, searched for addr
\* afterwards; the search stops at the first entry that is nil or has addr
DownTidbSnapshot(addr, p) ==
    LET tidbs == Tidbs[p]
        hit == Hit(tidbs, heap, {addr})
    IN  IF TidbsNil[p] THEN [res |-> "ErrNoTidbDB", tgt |-> Nil]
        ELSE IF hit # 0 /\ tidbs[hit] = Nil THEN [res |-> "panic", tgt |-> Nil]
        ELSE [res |-> "nil", tgt |-> IF hit = 0 THEN Nil ELSE tidbs[hit]]

\* Tidb.Close(); atomic.StoreInt32(&(Tidb.state), state)
DownTidbStore(h, tgt, state) ==
    IF tgt = Nil THEN h ELSE [h EXCEPT ![tgt].state = state]

(***************************************************************************)
(* UpTidb and DownTidb called by an administrative caller                  *)
(***************************************************************************)
OperUpDB(keys, n) ==
    /\ CanCall(n)
    /\ calls' = calls + 1
    /\ hist' = [hist EXCEPT !.watch = {}, !.round = NoRound]
    /\ UNCHANGED << TidbsNil, TidbsWeights, RoundRobinQ, ProxyAsCompute,
                    DownAfterNoAlive, Online, now, boot, count, scale, limiter,
                    lk >>
    /\ \E addr \in keys : \E p \in OperPools : \E ok \in Ping :
         LET id == Alloc(heap) IN
         IF UpDBWeight(addr, p).panic
         THEN /\ crashed' = TRUE
              /\ ret' = Returned("UpTidb", "panic")
              /\ SamePointers
         ELSE /\ UNCHANGED << crashed, ret >>
              /\ IF ok
                 THEN /\ HasFree(heap)
                      /\ Commit(Tidbs, sweep,
                                [oper EXCEPT !.pc = "uplock", !.addr = addr,
                                             !.pool = p, !.new = id, !.err = FALSE],
                                [heap EXCEPT ![id] = UpDB(addr, p)])
                 ELSE Commit(Tidbs, sweep,
                             [oper EXCEPT !.pc = "uplock", !.addr = addr,
                                          !.pool = p, !.new = Nil, !.err = TRUE],
                             heap)

OperUpTidb ==
    /\ ~crashed /\ oper.pc = "uplock"
    /\ UNCHANGED << TidbsWeights, RoundRobinQ, ProxyAsCompute, DownAfterNoAlive,
                    Online, now, boot, calls, count, scale, limiter, lk >>
    /\ hist' = [hist EXCEPT !.manual = @ \ {<< oper.pool, oper.addr >>}, !.watch = {},
                             !.round = NoRound]
    /\ LET r == UpTidbLocked(oper.addr, oper.pool, oper.new, oper.err)
       IN  /\ ret' = Returned("UpTidb", r.res)
           /\ crashed' = (r.res = "panic")
           /\ TidbsNil' = [TidbsNil EXCEPT ![oper.pool] = r.TidbsNil]
           /\ Commit([Tidbs EXCEPT ![oper.pool] = r.Tidbs], sweep, OperIdle, heap)

OperDownSnapshot(keys, n) ==
    /\ CanCall(n)
    /\ calls' = calls + 1
    /\ hist' = [hist EXCEPT !.watch = {}, !.round = NoRound]
    /\ UNCHANGED << TidbsNil, TidbsWeights, RoundRobinQ, ProxyAsCompute,
                    DownAfterNoAlive, Online, now, boot, count, scale, limiter,
                    lk >>
    /\ \E addr \in keys : \E p \in OperPools : \E state \in {Down, ManualDown} :
         LET r == DownTidbSnapshot(addr, p)
         IN  IF r.res # "nil"
             THEN /\ ret' = Returned("DownTidb", r.res)
                  /\ crashed' = (r.res = "panic")
                  /\ SamePointers
             ELSE /\ UNCHANGED << ret, crashed >>
                  /\ Commit(Tidbs, sweep,
                            [oper EXCEPT !.pc = "downstore", !.addr = addr, !.pool = p,
                                         !.state = state, !.tgt = r.tgt],
                            heap)

OperDownTidb ==
    /\ ~crashed /\ oper.pc = "downstore"
    /\ UNCHANGED << TidbsNil, TidbsWeights, RoundRobinQ, ProxyAsCompute,
                    DownAfterNoAlive, Online, now, boot, calls, count, scale, crashed,
                    limiter, lk >>
    /\ hist' = [hist EXCEPT
                 !.manual = IF oper.tgt = Nil THEN @
                            ELSE IF oper.state = ManualDown
                            THEN @ \cup {<< oper.pool, oper.addr >>}
                            ELSE @ \ {<< oper.pool, oper.addr >>},
                 !.watch = {}]
    /\ ret' = Returned("DownTidb", "nil")
    /\ Commit(Tidbs, sweep, OperIdle, DownTidbStore(heap, oper.tgt, oper.state))

UpTidb == OperUpDB(AddrKeys, MaxCalls) \/ OperUpTidb
DownTidb == OperDownSnapshot(AddrKeys, MaxCalls) \/ OperDownTidb

(***************************************************************************)
(* Cluster.CheckCluster and Cluster.checkTidbs: the health sweep           *)
(***************************************************************************)
\* the orders in which "for _, pool := range cluster.BackendPools" may
\* visit the pools (the iteration order of a Go map is not specified)
PoolOrders == { << TiDBForTP, TiDBForAP >>, << TiDBForAP, TiDBForTP >> }

\* the DB of the sweep's copy that the loop is at
SweepDB == heap[sweep.snap[sweep.i]]

\* the << pool, address >> pairs of the members whose state is Down
DownNow ==
    UNION { { << p, heap[Tidbs[p][i]].addr >> :
                i \in { j \in 1..Len(Tidbs[p]) : /\ Tidbs[p][j] # Nil
                                                  /\ ~heap[Tidbs[p][j]].Self
                                                  /\ heap[Tidbs[p][j]].state = Down } } :
            p \in PoolNames }

\* the test of checkTidbs without its first conjunct
NoAliveAnyWindow(db) == now - db.lastPing > DownAfterNoAlive

\* checkTidbs: int64(cluster.DownAfterNoAlive) > 0 &&
\* time.Now().Unix()-Tidbs[i].GetLastPing() > int64(cluster.DownAfterNoAlive/time.Second)
NoAlive(db) == DownAfterNoAlive > 0 /\ now - db.lastPing > DownAfterNoAlive

SweepNext == [sweep EXCEPT !.pc = "item", !.i = @ + 1, !.new = Nil, !.tgt = Nil,
                           !.err = FALSE]

\* the values that the load of cluster.Online in the loop test of
\* CheckCluster may return: Online is a plain bool that the loop reads with
\* no lock and no atomic, so once another goroutine has stored false the
\* load is in a data race with that store and may return the value of
\* either write
OnlineRead == IF Online THEN {TRUE} ELSE {TRUE, FALSE}

\* CheckCluster: for cluster.Online { cluster.checkTidbs(); sleep }
SweepStart ==
    /\ Running /\ TRUE \in OnlineRead /\ sweep.pc = "sleep"
    /\ \E order \in PoolOrders : sweep' = [sweep EXCEPT !.pc = "pool", !.pools = order]
    /\ hist' = [hist EXCEPT !.watch = DownNow]
    /\ UNCHANGED << Tidbs, TidbsNil, TidbsWeights, RoundRobinQ, heap, ProxyAsCompute,
                    DownAfterNoAlive, Online, now, crashed, boot, ret, oper,
                    calls, count, scale, limiter, lk >>

\* CheckCluster: the loop test reads false and CheckCluster returns; its
\* goroutine is over
SweepExit ==
    /\ Running /\ FALSE \in OnlineRead /\ sweep.pc = "sleep"
    /\ sweep' = [sweep EXCEPT !.pc = "done"]
    /\ UNCHANGED << Tidbs, TidbsNil, TidbsWeights, RoundRobinQ, heap, ProxyAsCompute,
                    DownAfterNoAlive, Online, now, crashed, boot, ret, oper,
                    calls, count, scale, hist, limiter, lk >>

\* the owner of the Cluster stops the health sweep: cluster.Online = false
SetOffline ==
    /\ Running /\ Online
    /\ Online' = FALSE
    /\ UNCHANGED << Tidbs, TidbsNil, TidbsWeights, RoundRobinQ, heap, ProxyAsCompute,
                    DownAfterNoAlive, now, crashed, boot, ret, sweep, oper,
                    calls, count, scale, hist, limiter, lk >>

\* checkTidbs: the next pool of the range loop; under the read lock, a nil
\* Tidbs returns from checkTidbs, otherwise Tidbs is copied
SweepPool ==
    /\ ~crashed /\ sweep.pc = "pool"
    /\ UNCHANGED << TidbsNil, TidbsWeights, RoundRobinQ, ProxyAsCompute,
                    DownAfterNoAlive, Online, now, crashed, boot, ret,
                    calls, count, scale, hist, limiter, lk >>
    /\ IF sweep.pools = <<>> \/ TidbsNil[Head(sweep.pools)]
       THEN Commit(Tidbs, SweepIdle, oper, heap)
       ELSE Commit(Tidbs,
                   [sweep EXCEPT !.pc = "item", !.pool = Head(sweep.pools),
                                 !.pools = Tail(sweep.pools),
                                 !.snap = Tidbs[Head(sweep.pools)], !.i = 1],
                   oper, heap)

\* checkTidbs: Tidbs[i].Self, Tidbs[i].Ping() and, when the ping is
\* answered, the load of Tidbs[i].state; when it is not, the test of the
\* time since the last ping
SweepPing ==
    /\ ~crashed /\ sweep.pc = "item"
    /\ UNCHANGED << TidbsNil, TidbsWeights, RoundRobinQ, ProxyAsCompute,
                    DownAfterNoAlive, Online, now, boot, ret,
                    calls, count, scale, limiter, lk >>
    /\ IF sweep.i > Len(sweep.snap)
       THEN /\ UNCHANGED << crashed, hist >>
            /\ Commit(Tidbs, [sweep EXCEPT !.pc = "pool", !.snap = <<>>, !.i = 0],
                      oper, heap)
       ELSE IF sweep.snap[sweep.i] = Nil
       THEN \* Tidbs[i].Self of a nil entry
            crashed' = TRUE /\ UNCHANGED hist /\ SamePointers
       ELSE IF SweepDB.Self
       THEN UNCHANGED << crashed, hist >> /\ Commit(Tidbs, SweepNext, oper, heap)
       ELSE /\ UNCHANGED crashed
            /\ \E ok \in Ping :
                 IF ok
                 THEN /\ hist' = [hist EXCEPT !.failT[SweepDB.addr] = 0 - 1]
                      /\ Commit(Tidbs,
                                [sweep EXCEPT !.pc = IF SweepDB.state = Down THEN "updb"
                                                     ELSE "setlast"],
                                oper, heap)
                 ELSE /\ hist' = [hist EXCEPT
                                    !.failT[SweepDB.addr] =
                                        IF @ < 0 /\ SweepDB.state = Up THEN now ELSE @,
                                    !.watch = {}]
                      /\ IF NoAlive(SweepDB)
                         THEN Commit(Tidbs, [sweep EXCEPT !.pc = "down"], oper, heap)
                         ELSE Commit(Tidbs, SweepNext, oper, heap)

\* checkTidbs calls pool.UpTidb: UpDB
SweepUpDB ==
    /\ ~crashed /\ sweep.pc = "updb"
    /\ UNCHANGED << TidbsNil, TidbsWeights, RoundRobinQ, ProxyAsCompute,
                    DownAfterNoAlive, Online, now, boot, ret,
                    calls, count, scale, limiter, lk >>
    /\ \E ok \in Ping :
         LET id == Alloc(heap) IN
         IF UpDBWeight(SweepDB.addr, sweep.pool).panic
         THEN crashed' = TRUE /\ UNCHANGED hist /\ SamePointers
         ELSE /\ UNCHANGED crashed
              /\ hist' = IF ok THEN hist ELSE [hist EXCEPT !.watch = {}]
              /\ IF ok
                 THEN /\ HasFree(heap)
                      /\ Commit(Tidbs, [sweep EXCEPT !.pc = "uplock", !.new = id,
                                                     !.err = FALSE],
                                oper, [heap EXCEPT ![id] = UpDB(SweepDB.addr, sweep.pool)])
                 ELSE Commit(Tidbs, [sweep EXCEPT !.pc = "uplock", !.new = Nil,
                                                  !.err = TRUE],
                             oper, heap)

\* checkTidbs calls pool.UpTidb: the part under the lock
SweepUpTidb ==
    /\ ~crashed /\ sweep.pc = "uplock"
    /\ UNCHANGED << TidbsWeights, RoundRobinQ, ProxyAsCompute, DownAfterNoAlive,
                    Online, now, boot, ret, calls, count, scale, hist, limiter,
                    lk >>
    /\ LET r == UpTidbLocked(SweepDB.addr, sweep.pool, sweep.new, sweep.err)
       IN  /\ crashed' = (r.res = "panic")
           /\ TidbsNil' = [TidbsNil EXCEPT ![sweep.pool] = r.TidbsNil]
           /\ Commit([Tidbs EXCEPT ![sweep.pool] = r.Tidbs],
                     [sweep EXCEPT !.pc = "setlast", !.new = Nil, !.err = FALSE],
                     oper, heap)

\* checkTidbs: Tidbs[i].SetLastPing() and the load of Tidbs[i].state
SweepSetLastPing ==
    /\ ~crashed /\ sweep.pc = "setlast"
    /\ UNCHANGED << TidbsNil, TidbsWeights, RoundRobinQ, ProxyAsCompute,
                    DownAfterNoAlive, Online, now, crashed, boot, ret,
                    calls, count, scale, hist, limiter, lk >>
    /\ Commit(Tidbs,
              IF SweepDB.state # ManualDown THEN [sweep EXCEPT !.pc = "storeup"]
              ELSE SweepNext,
              oper, [heap EXCEPT ![sweep.snap[sweep.i]].lastPing = now])

\* checkTidbs: atomic.StoreInt32(&(Tidbs[i].state), Up)
SweepStoreUp ==
    /\ ~crashed /\ sweep.pc = "storeup"
    /\ UNCHANGED << TidbsNil, TidbsWeights, RoundRobinQ, ProxyAsCompute,
                    DownAfterNoAlive, Online, now, crashed, boot, ret,
                    calls, count, scale, hist, limiter, lk >>
    /\ Commit(Tidbs, SweepNext, oper, [heap EXCEPT ![sweep.snap[sweep.i]].state = Up])

\* checkTidbs calls pool.DownTidb(addr, Down): the copy under the read lock
SweepDownSnapshot ==
    /\ ~crashed /\ sweep.pc = "down"
    /\ UNCHANGED << TidbsNil, TidbsWeights, RoundRobinQ, ProxyAsCompute,
                    DownAfterNoAlive, Online, now, boot, ret,
                    calls, count, scale, hist, limiter, lk >>
    /\ LET r == DownTidbSnapshot(SweepDB.addr, sweep.pool)
       IN  /\ crashed' = (r.res = "panic")
           /\ IF r.res = "panic" THEN SamePointers
              ELSE IF r.res # "nil" THEN Commit(Tidbs, SweepNext, oper, heap)
              ELSE Commit(Tidbs, [sweep EXCEPT !.pc = "downstore", !.tgt = r.tgt],
                          oper, heap)

\* checkTidbs calls pool.DownTidb(addr, Down): Close and the store of state
SweepDownTidb ==
    /\ ~crashed /\ sweep.pc = "downstore"
    /\ UNCHANGED << TidbsNil, TidbsWeights, RoundRobinQ, ProxyAsCompute,
                    DownAfterNoAlive, Online, now, crashed, boot, ret,
                    calls, count, scale, hist, limiter, lk >>
    /\ Commit(Tidbs, SweepNext, oper, DownTidbStore(heap, sweep.tgt, Down))

checkTidbs ==
    \/ SweepPool \/ SweepPing \/ SweepUpDB \/ SweepUpTidb \/ SweepSetLastPing
    \/ SweepStoreUp \/ SweepDownSnapshot \/ SweepDownTidb

\* a second passes
Tick ==
    /\ Running /\ now < MaxTime
    /\ now' = now + 1
    /\ UNCHANGED << Tidbs, TidbsNil, TidbsWeights, RoundRobinQ, heap, ProxyAsCompute,
                    DownAfterNoAlive, Online, crashed, boot, ret, sweep, oper,
                    calls, count, scale, hist, limiter, lk >>

(***************************************************************************)
(* Server.CheckClusterSilence: one iteration of its loop                   *)
(***************************************************************************)
CostLimit == 10000
QPSLimit == 100
SilenceCount == 15

\* costs < 10000 && s.counter.OldClientQPS < 100
Quiet(costs, qps) == costs < CostLimit /\ qps < QPSLimit

\* a variant of Reached that is one sample early
ReachedEarly(c) == c >= SilenceCount - 1

\* count >= 15
Reached(c) == c >= SilenceCount

\* a variant of ResetCount that keeps the count
KeepCount(c) == c

\* count = 0, after the 15th quiet sample
ResetCount(c) == 0

\* a variant of ManyTidbs that takes one entry for many
AnyTidbs(n) == n > 0

\* len(tppool.Tidbs) > 1
ManyTidbs(n) == n > 1

\* a variant of SoleTidb that takes many entries for one
SomeTidbs(n) == n >= 1

\* len(tppool.Tidbs) == 1
SoleTidb(n) == n = 1

\* the members of the tp pool that are not self
NonSelf ==
    { i \in 1..Len(Tidbs[TiDBForTP]) :
        Tidbs[TiDBForTP][i] # Nil /\ ~heap[Tidbs[TiDBForTP][i]].Self }

\* the answers of ScalerClient.ScaleCluster: TRUE when err is nil
ScaleCluster == BOOLEAN

\* a variant of AfterScale that leaves the loop when the scaler fails
AfterScaleReturn(err) == IF err THEN "return" ELSE "sleep"

\* where the loop is after the call of the scaler: the error is formatted
\* with fmt.Errorf and nothing else is done with it, and the loop comes to
\* its time.Sleep
AfterScale(err) == "sleep"

CheckClusterSilence ==
    /\ Running /\ scale.pc = "sleep"
    /\ \E costs \in CostSamples : \E qps \in QPSSamples : \E ok \in ScaleCluster :
         LET n == Len(Tidbs[TiDBForTP])
             quiet == Quiet(costs, qps)
             c1 == count + 1
             in == quiet /\ Reached(c1) /\ ManyTidbs(n)
             out == ~quiet /\ ProxyAsCompute /\ SoleTidb(n)
         IN  /\ quiet => hist.run < MaxRun
             /\ count' = IF ~quiet THEN 0
                         ELSE IF Reached(c1) THEN ResetCount(c1) ELSE c1
             /\ scale' = [in |-> in, out |-> out, quiet |-> quiet, n |-> n,
                          nonself |-> Cardinality(NonSelf),
                          since |-> IF hist.gap < Window THEN hist.gap + 1 ELSE Window,
                          sent |-> IF in \/ out THEN 1 ELSE 0,
                          err |-> (in \/ out) /\ ~ok,
                          pc |-> AfterScale((in \/ out) /\ ~ok)]
             /\ hist' = [hist EXCEPT
                          !.run = IF quiet THEN @ + 1 ELSE 0,
                          !.ins = IF ~quiet THEN 0 ELSE IF in THEN @ + 1 ELSE @,
                          !.gap = IF in THEN 0 ELSE IF @ < Window THEN @ + 1 ELSE Window]
    /\ UNCHANGED << Tidbs, TidbsNil, TidbsWeights, RoundRobinQ, heap, ProxyAsCompute,
                    DownAfterNoAlive, Online, now, crashed, boot, ret, sweep, oper,
                    calls, limiter, lk >>

(***************************************************************************)
(* Cluster.GetTidbConn                                                     *)
(***************************************************************************)
\* the values that the constant BigCost of the backend package may have:
\* one of the two classes, or a string that is the dbType of no DB
BigCostChoices == { TiDBForTP, TiDBForAP, "bigcost" }

\* cluster.GetNextTidb(indicate, cost) on the pool it picked for the cost:
\* an error when the pool has no entry, and else one of the entries; which
\* one is the table's choice, and the DB may be marked Down between the
\* choice and the load of its state in GetTidbConn
GetNextTidb(tidbs) ==
    IF Len(tidbs) = 0 THEN { [err |-> TRUE, db |-> Nil] }
    ELSE { [err |-> FALSE, db |-> tidbs[i]] : i \in 1..Len(tidbs) }

\* db.newConn() and db.GetConn(): whether they give a connection is the
\* network's answer
NewConn == BOOLEAN

\* if db.Self
SelfIfUp(db) == db.Self /\ db.state = Up
IsSelf(db) == db.Self

\* if atomic.LoadInt32(&(db.state)) == Down
IsDownNever(db) == FALSE
IsDown(db) == db.state = Down

\* GetTidbConn, given what GetNextTidb returned on pool p, the value of
\* BigCost and the network's answer
GetTidbConnCall(sel, p, BigCost, ok) ==
    LET db == heap[sel.db]
        none == [NoConn EXCEPT !.pool = p, !.seq = calls]
        got == [none EXCEPT !.db = TRUE, !.Self = db.Self, !.state = db.state,
                            !.big = (db.dbType = BigCost)]
    IN  IF sel.err \/ sel.db = Nil
        THEN [none EXCEPT !.res = "ErrNoTidbDB"]
        ELSE IF IsSelf(db)
        THEN [got EXCEPT !.res = "SelfConn"]
        ELSE IF db.dbType = BigCost
        THEN [got EXCEPT !.res = IF ok THEN "NewConn" ELSE "ErrConnIsNil",
                         !.dial = TRUE]
        ELSE IF IsDown(db)
        THEN [got EXCEPT !.res = "ErrTidbDown"]
        ELSE [got EXCEPT !.res = IF ok THEN "PoolConn" ELSE "ErrGetConn",
                         !.checkout = TRUE]

GetTidbConn ==
    /\ Running
    /\ \E p \in PoolNames : \E sel \in GetNextTidb(Tidbs[p]) :
       \E BigCost \in BigCostChoices : \E ok \in NewConn :
         hist' = [hist EXCEPT !.conn = GetTidbConnCall(sel, p, BigCost, ok)]
    /\ UNCHANGED << Tidbs, TidbsNil, TidbsWeights, RoundRobinQ, heap, ProxyAsCompute,
                    DownAfterNoAlive, Online, now, crashed, boot, ret, sweep, oper,
                    calls, count, scale, limiter, lk >>

(***************************************************************************)
(* Server.getToken and Server.releaseToken                                 *)
(***************************************************************************)
\* cfg.TokenLimit
TokenLimits == { 1, 2 }

\* NewTokenLimiter(n): a channel of n tokens, full
NewTokenLimiter(n) == [NoLimiter EXCEPT !.made = TRUE, !.count = n, !.ch = n]

\* TokenLimiter.Get receives from the channel: it waits while it is empty
CanGet(l) == l.ch > 0
\* TokenLimiter.Put sends to the channel: it waits while it is full
CanPut(l) == l.ch < l.count

\* the handlers that hold a token: got from the limiter, not put back
Outstanding == { h \in Handlers : limiter.pc[h] \in {"inc", "held"} }

ServerOnly ==
    UNCHANGED << Tidbs, TidbsNil, TidbsWeights, RoundRobinQ, heap, ProxyAsCompute,
                 DownAfterNoAlive, Online, now, crashed, boot, ret, sweep, oper,
                 calls, count, scale, hist, lk >>

NewServer ==
    /\ ~limiter.made
    /\ \E n \in TokenLimits : limiter' = NewTokenLimiter(n)
    /\ ServerOnly

\* a handler calls getToken
CallGetToken(h) ==
    /\ limiter.made /\ limiter.pc[h] = "idle"
    /\ limiter' = [limiter EXCEPT !.pc[h] = "get"]
    /\ ServerOnly

\* tok := s.concurrentLimiter.Get()
getTokenNoWait(h) ==
    /\ limiter.pc[h] = "get"
    /\ limiter' = [limiter EXCEPT !.pc[h] = "inc"]
    /\ ServerOnly
getToken(h) ==
    /\ limiter.pc[h] = "get"
    /\ CanGet(limiter)
    /\ limiter' = [limiter EXCEPT !.ch = @ - 1, !.pc[h] = "inc"]
    /\ ServerOnly

\* metrics.TokenGauge.Inc(); return tok
TokenGaugeInc(h) ==
    /\ limiter.pc[h] = "inc"
    /\ limiter' = [limiter EXCEPT !.gauge = @ + 1, !.pc[h] = "held"]
    /\ ServerOnly

\* releaseToken: s.concurrentLimiter.Put(token)
releaseToken(h) ==
    /\ limiter.pc[h] = "held"
    /\ CanPut(limiter)
    /\ limiter' = [limiter EXCEPT !.ch = @ + 1, !.pc[h] = "dec"]
    /\ ServerOnly

\* metrics.TokenGauge.Dec()
TokenGaugeDec(h) ==
    /\ limiter.pc[h] = "dec"
    /\ limiter' = [limiter EXCEPT !.gauge = @ - 1, !.pc[h] = "idle"]
    /\ ServerOnly

(***************************************************************************)
(* The pools' locks.  Each operation is followed through its lock regions: *)
(* where it takes and gives back the pool's RWMutex, where it reads or     *)
(* writes Tidbs, TidbsWeights and the table, and where it waits for the    *)
(* network or the platform.  Which branch it takes is decided by the data, *)
(* which is left open here.                                                *)
(***************************************************************************)
\* sync.RWMutex: RLock waits while the exclusive lock is held, Lock waits
\* while any lock is held
CanRLock(l, p) == l.w[p] = "none"
CanLock(l, p) == l.w[p] = "none" /\ l.r[p] = {}
RLock(l, t, p) == [l EXCEPT !.r[p] = @ \cup {t}]
Lock(l, t, p) == [l EXCEPT !.w[p] = t]

\* a variant of RUnlock that gives nothing back
RUnlockNever(l, t, p) == l
RUnlock(l, t, p) == [l EXCEPT !.r[p] = @ \ {t}]

\* a variant of Unlock that gives nothing back
UnlockNever(l, t, p) == l
Unlock(l, t, p) == [l EXCEPT !.w[p] = "none"]

\* goroutine t holds a lock of pool p
Holds(t, p) == lk.w[p] = t \/ t \in lk.r[p]

\* where a goroutine is when the call it made returns: the sweep goes on
\* with its loop over the copy
Home(t) == IF t = "sweep" THEN "ct_item" ELSE "idle"

DataOnly ==
    UNCHANGED << Tidbs, TidbsNil, TidbsWeights, RoundRobinQ, heap, ProxyAsCompute,
                 DownAfterNoAlive, Online, now, crashed, boot, ret, sweep, oper,
                 calls, count, scale, hist, limiter >>

\* goroutine t goes from pc to next, and the locks become l
Go(t, pc, next, l) ==
    /\ ~crashed /\ lk.th[t].pc = pc
    /\ lk' = [l EXCEPT !.th[t].pc = next]
    /\ DataOnly

\* goroutine t starts a call on pool p
Start(t, p, next) ==
    /\ ~crashed /\ lk.th[t].pc = "idle"
    /\ lk' = [lk EXCEPT !.th[t] = [pc |-> next, pool |-> p]]
    /\ DataOnly

\* goroutine t panics at pc; its deferred calls have run and the locks are
\* l; nothing recovers the panic of the sweep's goroutine, and the process
\* ends
Panic(t, pc, l) ==
    /\ ~crashed /\ lk.th[t].pc = pc
    /\ lk' = [l EXCEPT !.th[t].pc = "panic"]
    /\ crashed' = TRUE
    /\ UNCHANGED << Tidbs, TidbsNil, TidbsWeights, RoundRobinQ, heap, ProxyAsCompute,
                    DownAfterNoAlive, Online, now, boot, ret, sweep, oper,
                    calls, count, scale, hist, limiter >>

\* the pool that goroutine t is working on
PoolOf(t) == lk.th[t].pool

\* checkTidbs, for one pool of its range loop
LkCheckTidbs(t) ==
    \/ \E p \in PoolNames : Start(t, p, "ct_rlock")
    \/ \* pool.RLock()
       CanRLock(lk, PoolOf(t)) /\ Go(t, "ct_rlock", "ct_locked", RLock(lk, t, PoolOf(t)))
    \/ \* pool.Tidbs == nil: pool.RUnlock(); return
       Go(t, "ct_locked", "idle", RUnlock(lk, t, PoolOf(t)))
    \/ \* copy(Tidbs, pool.Tidbs); pool.RUnlock()
       Go(t, "ct_locked", "ct_item", RUnlock(lk, t, PoolOf(t)))
    \/ \* the loop over the copy: its end, or an entry that is Self
       Go(t, "ct_item", "idle", lk) \/ Go(t, "ct_item", "ct_item", lk)
    \/ \* Tidbs[i].Ping() is sent
       Go(t, "ct_item", "ct_ping", lk)
    \/ \* the ping is answered or not: SetLastPing and the store of Up, or
       \* nothing; or pool.UpTidb; or pool.DownTidb
       Go(t, "ct_ping", "ct_item", lk) \/ Go(t, "ct_ping", "ud_read", lk)
         \/ Go(t, "ct_ping", "dt_rlock", lk)

\* UpTidb: UpDB (the weight lookup, then Open and Ping), then the
\* replacement under the lock
LkUpTidb(t) ==
    \/ \E p \in PoolNames : t # "sweep" /\ Start(t, p, "ud_read")
    \/ \* UpDB: for i, db := range cluster.Tidbs ... cluster.TidbsWeights[i]
       Go(t, "ud_read", "ud_open", lk)
    \/ \* Open and db.Ping() are answered
       Go(t, "ud_open", "ut_lock", lk)
    \/ \* cluster.Lock()
       CanLock(lk, PoolOf(t)) /\ Go(t, "ut_lock", "ut_locked", Lock(lk, t, PoolOf(t)))
    \/ \* cluster.Tidbs[k] = db or append; cluster.Unlock(); return
       Go(t, "ut_locked", Home(t), Unlock(lk, t, PoolOf(t)))
    \/ \* Tidb.addr of a nil entry: UpTidb has no deferred Unlock
       Panic(t, "ut_locked", lk)

\* DownTidb: the copy under the shared lock, then Close and the store
LkDownTidb(t) ==
    \/ \E p \in PoolNames : t # "sweep" /\ Start(t, p, "dt_rlock")
    \/ \* cluster.RLock()
       CanRLock(lk, PoolOf(t)) /\ Go(t, "dt_rlock", "dt_locked", RLock(lk, t, PoolOf(t)))
    \/ \* cluster.Tidbs == nil: cluster.RUnlock(); return
       Go(t, "dt_locked", Home(t), RUnlock(lk, t, PoolOf(t)))
    \/ \* copy(Tidbs, cluster.Tidbs); cluster.RUnlock()
       Go(t, "dt_locked", "dt_close", RUnlock(lk, t, PoolOf(t)))
    \/ \* Tidb.Close(); the store of state; return
       Go(t, "dt_close", Home(t), lk)

\* AddTidb: pool.Lock(); defer pool.Unlock()
LkAddTidb(t) ==
    \/ \E p \in PoolNames : Start(t, p, "at_lock")
    \/ \* pool.Lock()
       CanLock(lk, PoolOf(t)) /\ Go(t, "at_lock", "at_search", Lock(lk, t, PoolOf(t)))
    \/ \* the search of pool.Tidbs: ErrTidbExist, or GetOnePod is asked
       Go(t, "at_search", "idle", Unlock(lk, t, PoolOf(t)))
         \/ Go(t, "at_search", "at_pod", lk)
    \/ \* v.addr of a nil entry, or podArr[2]: the deferred Unlock runs
       Panic(t, "at_search", Unlock(lk, t, PoolOf(t)))
    \/ \* GetOnePod answers: no pod or ParseFloat fails (return); or
       \* the weight is appended and the DB is self; or OpenDB dials
       Go(t, "at_pod", "idle", Unlock(lk, t, PoolOf(t)))
         \/ Go(t, "at_pod", "at_append", lk) \/ Go(t, "at_pod", "at_open", lk)
    \/ \* OpenDB answers: return err, or go on
       Go(t, "at_open", "idle", Unlock(lk, t, PoolOf(t)))
         \/ Go(t, "at_open", "at_append", lk)
    \/ \* pool.Tidbs = append(pool.Tidbs, db); pool.InitBalancer(); return
       Go(t, "at_append", "idle", Unlock(lk, t, PoolOf(t)))

\* DeleteTidb: InitBalancerAfterDeleteTidb (Lock; defer Unlock), then the
\* drain checks of util.Retry
LkDeleteTidb(t) ==
    \/ \E p \in PoolNames : Start(t, p, "ib_lock")
    \/ \* cluster.Lock()
       CanLock(lk, PoolOf(t)) /\ Go(t, "ib_lock", "ib_locked", Lock(lk, t, PoolOf(t)))
    \/ \* InitBalancerAfterDeleteTidb returns an error or no DB: return
       Go(t, "ib_locked", "idle", Unlock(lk, t, PoolOf(t)))
    \/ \* InitBalancerAfterDeleteTidb returns the DB: util.Retry starts
       Go(t, "ib_locked", "del_drain", Unlock(lk, t, PoolOf(t)))
    \/ \* .addr of a nil entry, or TidbsWeights[i]: the deferred Unlock runs
       Panic(t, "ib_locked", Unlock(lk, t, PoolOf(t)))
    \/ \* a drain check that finds connections in use; the last check
       Go(t, "del_drain", "del_drain", lk) \/ Go(t, "del_drain", "idle", lk)

\* CheckClusterSilence: len(tppool.Tidbs)
LkCheckClusterSilence(t) ==
    \/ Start(t, TiDBForTP, "cs_read")
    \/ Go(t, "cs_read", "idle", lk)

\* where a goroutine reads Tidbs, TidbsWeights or the table, where it writes
\* them, and where it waits for the network or the platform
ReadsAt == { "ct_locked", "dt_locked", "ud_read", "cs_read", "at_search" }
WritesAt == { "ut_locked", "at_append", "ib_locked" }
WaitsAt == { "ct_ping", "ud_open", "at_pod", "at_open" }

\* where a goroutine is between taking a lock of its pool and giving it
\* back
LockedAt == { "ct_locked", "dt_locked", "ut_locked", "at_search", "at_pod", "at_open",
              "at_append", "ib_locked" }

(***************************************************************************)
(* Specifications                                                          *)
(***************************************************************************)
Next == BootParse \/ BootStart \/ AddTidb \/ DeleteTidb \/ UpTidb \/ DownTidb

\* the administrative calls, with no health sweep and the clock at rest
InitAdmin == Init /\ DownAfterNoAlive = 0

Spec == InitAdmin /\ [][Next]_vars

\* the health sweep, the clock, and an administrative caller that marks
\* a.p.n Down or ManualDown
NextSweep ==
    \/ BootParse \/ BootStart \/ SweepStart \/ checkTidbs \/ Tick
    \/ OperDownSnapshot({HostA}, MaxSideCalls) \/ OperDownTidb

SpecSweep == Init /\ [][NextSweep]_vars

\* the health sweep and the clock, with an owner that stops the sweep
NextOnline ==
    \/ BootParse \/ BootStart \/ SweepStart \/ SweepExit \/ checkTidbs \/ Tick
    \/ SetOffline

SpecOnline == Init /\ [][NextOnline]_vars

\* AddTidb with weights of every kind, and DeleteTidb of the address
NextWeight ==
    \/ BootParse \/ BootStart
    \/ AddTidbOf(WeightInputs, MaxCalls) \/ DeleteTidbOf({HostB}, MaxCalls)

SpecWeight == InitAdmin /\ [][NextWeight]_vars

\* address strings handed to AddTidb and to DeleteTidb alike
RoundInputs == { HostA \o <<"@", "2">>, HostB }

\* AddTidb and DeleteTidb called with the same address strings
NextRound ==
    \/ BootParse \/ BootStart
    \/ AddTidbOf(RoundInputs, MaxCalls) \/ DeleteTidbOf(RoundInputs, MaxCalls)

SpecRound == InitAdmin /\ [][NextRound]_vars

\* the health sweep, the clock, and an administrative caller that deletes
\* a.p.n
NextDelete ==
    \/ BootParse \/ BootStart \/ SweepStart \/ checkTidbs \/ Tick
    \/ DeleteTidbOf({HostA}, MaxSideCalls)

SpecDelete == Init /\ [][NextDelete]_vars

\* the autoscale loop, and an administrative caller that adds b.p.n or
\* deletes a.p.n
NextScale ==
    \/ BootParse \/ BootStart \/ CheckClusterSilence
    \/ AddTidbOf({HostB}, MaxSideCalls) \/ DeleteTidbOf({HostA}, MaxSideCalls)

SpecScale == InitAdmin /\ [][NextScale]_vars

\* the clients' GetTidbConn, and an administrative caller that marks a
\* backend Down or ManualDown or deletes one
NextConn ==
    \/ BootParse \/ BootStart \/ GetTidbConn
    \/ OperDownSnapshot(AddrKeys, MaxSideCalls) \/ OperDownTidb
    \/ DeleteTidbOf(AddrKeys, MaxSideCalls)

SpecConn == InitAdmin /\ [][NextConn]_vars

\* the token limiter and the handlers
NextToken ==
    \/ NewServer
    \/ \E h \in Handlers :
         \/ CallGetToken(h) \/ getToken(h) \/ TokenGaugeInc(h)
         \/ releaseToken(h) \/ TokenGaugeDec(h)

SpecToken == InitAdmin /\ [][NextToken]_vars

\* the lock regions of the operations, run by the health sweep, two
\* administrative callers and the autoscale loop
NextLock ==
    \/ LkCheckTidbs("sweep") \/ LkUpTidb("sweep") \/ LkDownTidb("sweep")
    \/ LkCheckClusterSilence("scale")
    \/ \E t \in { "adminA", "adminB" } :
         LkAddTidb(t) \/ LkDeleteTidb(t) \/ LkUpTidb(t) \/ LkDownTidb(t)

SpecLock == InitAdmin /\ [][NextLock]_vars

(***************************************************************************)
(* Properties                                                              *)
(***************************************************************************)
\* the indices of the entries of pool p that have the address a
Members(p, a) ==
    { i \in 1..Len(Tidbs[p]) : Tidbs[p][i] # Nil /\ heap[Tidbs[p][i]].addr = a }

\* the address of addr is in pool p (a @weight suffix is ignored)
Present(addr, p) ==
    /\ Len(addr) > 0
    /\ \E i \in 1..Len(Tidbs[p]) :
         /\ Tidbs[p][i] # Nil
         /\ AddrOnly[heap[Tidbs[p][i]].addr] = AddrParts[addr].addrAndWeight[1]

\* C1: in every reachable state of every pool, Tidbs and TidbsWeights have
\* the same length and TidbsWeights[i] is the weight of Tidbs[i], whatever
\* ParseTidbs, AddTidb (failing calls included), DeleteTidb, UpTidb and
\* DownTidb did before.
C1_WeightsAligned ==
    \A p \in PoolNames :
      /\ Len(Tidbs[p]) = Len(TidbsWeights[p])
      /\ \A i \in 1..Len(Tidbs[p]) :
           (Tidbs[p][i] # Nil /\ ~heap[Tidbs[p][i]].Self)
             => heap[Tidbs[p][i]].weight = TidbsWeights[p][i]

\* C6: AddTidb with an address that is in the pool already (the @weight
\* suffix ignored) returns ErrTidbExist and leaves Tidbs, TidbsWeights and
\* the selection table as they were, whatever the platform and the network
\* answer.
C6_AddTidbExisting ==
    (Running /\ oper.pc = "idle") =>
      \A addr \in AddrInputs : \A p \in OperPools :
      \A pod \in GetOnePod : \A open \in OpenDB :
        Present(addr, p) =>
          LET o == AddTidbCall(addr, p, pod, open)
          IN  /\ o.res = "ErrTidbExist"
              /\ ~o.added
              /\ o.TidbsWeights = TidbsWeights[p]
              /\ o.RoundRobinQ = RoundRobinQ[p]

\* C7: in every reachable state no two entries of a pool's Tidbs have the
\* same address.
C7_UniqueByAddress ==
    \A p \in PoolNames : \A a \in AddrKeys : Cardinality(Members(p, a)) <= 1

\* C10: AddTidb("self") and AddTidb("self@4.0"), when self is not in the
\* pool, return nil, append a DB with Self = true and the parsed or the
\* default weight, and set ProxyAsCompute.
C10_AddSelf ==
    (Running /\ oper.pc = "idle") =>
      \A addr \in { StrSelf, StrSelf \o <<"@", "4", ".", "0">> } :
      \A p \in OperPools : \A pod \in GetOnePod : \A open \in OpenDB :
        (~Present(addr, p) /\ \A i \in 1..Len(Tidbs[p]) : Tidbs[p][i] # Nil) =>
          LET o == AddTidbCall(addr, p, pod, open)
          IN  /\ o.res = "nil"
              /\ o.added
              /\ o.new.Self
              /\ o.TidbsWeights = Append(TidbsWeights[p], AddrParts[addr].pf.val)
              /\ o.ProxyAsCompute

\* C2: a backend that an administrative DownTidb(addr, ManualDown) has
\* marked is not Up afterwards, whatever the probes of the health sweep
\* answer and however the sweep interleaves with the call, until an
\* administrative call changes it.
C2_ManualDownSticky ==
    \A pa \in hist.manual : \A i \in Members(pa[1], pa[2]) :
      heap[Tidbs[pa[1]][i]].state # Up

\* C3: an address that DeleteTidb took out of a pool is in no entry of the
\* pool's Tidbs until AddTidb adds it again, also when a health sweep that
\* copied Tidbs before the removal goes on after it.
C3_RemovedStaysOut ==
    \A p \in PoolNames : \A a \in hist.removed[p] : Members(p, a) = {}

\* the step is a probe of checkTidbs that was not answered
ProbeFailed ==
    /\ ~crashed /\ sweep.pc = "item" /\ sweep.i <= Len(sweep.snap)
    /\ sweep.snap[sweep.i] # Nil /\ ~SweepDB.Self
    /\ \/ sweep'.pc = "down"
       \/ sweep'.pc = "item" /\ sweep'.i = sweep.i + 1

\* C8 (as the code has it): when a probe of the health sweep is not
\* answered, the sweep calls DownTidb(addr, Down) if and only if
\* DownAfterNoAlive > 0 and more than DownAfterNoAlive seconds have passed
\* since the backend's last answered probe (or its open); with
\* DownAfterNoAlive <= 0 no failed probe marks a backend Down.
C8_DownIffNoAlive ==
    [][ ProbeFailed =>
          (sweep'.pc = "down" <=>
             (DownAfterNoAlive > 0 /\ now - SweepDB.lastPing > DownAfterNoAlive)) ]_vars

\* C8, witness: the sweep is marking a backend Down after a probe that was
\* not answered, the first one since the backend answered
C8_Witness ==
    /\ sweep.pc = "downstore" /\ sweep.tgt # Nil
    /\ DownAfterNoAlive > 0
    /\ hist.failT[SweepDB.addr] >= 0

\* C8 (as the specification has it): a backend whose probes start failing
\* at T is not marked Down by a sweep before T + DownAfterNoAlive.
C8_UpUntilWindowFromFailure ==
    (sweep.pc = "down" /\ hist.failT[SweepDB.addr] >= 0)
      => now >= hist.failT[SweepDB.addr] + DownAfterNoAlive

\* C9: when a health sweep in which every probe and every dial was
\* answered, and during which no administrative call acted, has ended,
\* every backend that was Down when it started is in Tidbs and Up.
C9_DownBecomesUp ==
    (sweep.pc = "sleep" /\ ~crashed) =>
      \A pa \in hist.watch :
        \E i \in Members(pa[1], pa[2]) : heap[Tidbs[pa[1]][i]].state = Up

\* C4: CheckClusterSilence sends a scale-in request only on a quiet sample
\* that completes 15 quiet samples in a row, counted from the last sample
\* that was not quiet or from the last 15th; so a run of fewer than 15
\* quiet samples sends none, a run sends at most one request per 15
\* samples, and two requests are 15 samples apart or more.
C4_ScaleInDebounced ==
    /\ scale.in => /\ scale.quiet
                   /\ hist.run >= Window /\ hist.run % Window = 0
                   /\ scale.since >= Window
    /\ hist.ins <= hist.run \div Window

\* C4, witness: the second scale-in request of a run of quiet samples
C4_Witness == scale.in /\ hist.ins = 2 /\ scale.since = Window

\* C5: the 15th of 15 quiet samples in a row that started with count = 0,
\* taken when the tp pool has more than one member that is not self, sends
\* a scale-in request, the only one of the 15 samples, and leaves count = 0.
C5_FifteenthSampleScalesIn ==
    (hist.run = Window /\ scale.nonself > 1) =>
      (scale.in /\ hist.ins = 1 /\ count = 0)

\* C5, witness: the 15th quiet sample in a row, with two members that are
\* not self
C5_Witness == hist.run = Window /\ scale.nonself > 1 /\ scale.in /\ hist.gap = 0

\* C11: GetTidbConn, when the DB it selected has Self = true, returns a
\* pass-through BackendConn without dialling and without taking a pooled
\* connection, whatever the state and the dbType of the DB.
C11_SelfPassThrough ==
    (hist.conn.db /\ hist.conn.Self) =>
      (hist.conn.res = "SelfConn" /\ ~hist.conn.dial /\ ~hist.conn.checkout)

\* C11, witness: GetTidbConn selected the self DB after an administrative
\* call marked it Down, and its dbType is BigCost
C11_Witness ==
    /\ hist.conn.db /\ hist.conn.Self /\ hist.conn.state = Down /\ hist.conn.big
    /\ hist.conn.res = "SelfConn"

\* C12: in every reachable state a DB with Self = true that is in a pool is
\* not Down, whatever DownTidb and UpTidb calls (DownTidb("self", Down)
\* among them) were made.
C12_SelfNeverDown ==
    \A p \in PoolNames : \A i \in 1..Len(Tidbs[p]) :
      (Tidbs[p][i] # Nil /\ heap[Tidbs[p][i]].Self) => heap[Tidbs[p][i]].state # Down

\* C13 (as the code has it): GetTidbConn, when the DB it selected is not
\* self, is Down and has a dbType other than BigCost, returns ErrTidbDown
\* without dialling and without taking a pooled connection; a DB that is not
\* self and whose dbType is BigCost is dialled with newConn whatever its
\* state.
C13_DownNotDialledUnlessBigCost ==
    (hist.conn.db /\ ~hist.conn.Self) =>
      /\ (hist.conn.state = Down /\ ~hist.conn.big) =>
            (hist.conn.res = "ErrTidbDown" /\ ~hist.conn.dial /\ ~hist.conn.checkout)
      /\ hist.conn.big =>
            (hist.conn.dial /\ hist.conn.res \in {"NewConn", "ErrConnIsNil"})

\* C13, witness: GetTidbConn selected a.p.n after an administrative call
\* marked it Down, and its dbType is not BigCost
C13_Witness ==
    /\ hist.conn.db /\ ~hist.conn.Self /\ hist.conn.state = Down /\ ~hist.conn.big
    /\ hist.conn.res = "ErrTidbDown"

\* C13 (as the specification has it): GetTidbConn, when the DB it selected
\* is not self and is Down, returns ErrTidbDown and does not dial.
C13_DownNeverDialled ==
    (hist.conn.db /\ ~hist.conn.Self /\ hist.conn.state = Down) =>
      (hist.conn.res = "ErrTidbDown" /\ ~hist.conn.dial)

\* C14: DeleteTidb of the address of the only entry of a pool returns nil
\* and leaves Tidbs nil and TidbsWeights and the selection table empty, and
\* a GetTidbConn that selects from the pool afterwards returns ErrNoTidbDB.
C14_DeleteSoleMember ==
    (Running /\ oper.pc = "idle") =>
      \A p \in PoolNames : \A addr \in AddrKeys :
        (Len(Tidbs[p]) = 1 /\ Members(p, addr) = {1}) =>
          LET o == InitBalancerAfterDeleteTidb(addr, p)
          IN  /\ o.res = "nil"
              /\ o.Tidbs = <<>> /\ o.TidbsNil
              /\ o.TidbsWeights = <<>>
              /\ o.RoundRobinQ = <<>>
              /\ \A sel \in GetNextTidb(o.Tidbs) :
                 \A BigCost \in BigCostChoices : \A ok \in NewConn :
                   GetTidbConnCall(sel, p, BigCost, ok).res = "ErrNoTidbDB"

\* C14, witness: DeleteTidb took the only entry out of a pool, and the
\* GetTidbConn that selected from the pool next returned ErrNoTidbDB
C14_Witness ==
    /\ ret = Returned("DeleteTidb", "nil")
    /\ hist.removed[hist.conn.pool] # {}
    /\ Tidbs[hist.conn.pool] = <<>> /\ TidbsNil[hist.conn.pool]
    /\ hist.conn.seq = calls /\ hist.conn.res = "ErrNoTidbDB"

\* C15: DeleteTidb of an address that is in the pool returns nil (after the
\* drain checks, 30 at most), with the address out of Tidbs.
C15_DeleteExistingSucceeds ==
    (Running /\ oper.pc = "idle") =>
      \A p \in PoolNames : \A addr \in AddrKeys :
        Members(p, addr) # {} =>
          LET o == InitBalancerAfterDeleteTidb(addr, p)
          IN  /\ o.res = "nil"
              /\ \A i \in 1..Len(o.Tidbs) : heap[o.Tidbs[i]].addr # addr

\* C16: at every instant the handlers that got a token from getToken and
\* have not given it to releaseToken are cfg.TokenLimit at most, however
\* the handlers interleave; and a handler that is in getToken while
\* cfg.TokenLimit tokens are out stays there until one is put back.
C16_TokenLimit ==
    /\ [](limiter.made =>
            /\ Cardinality(Outstanding) <= limiter.count
            /\ limiter.ch + Cardinality(Outstanding) = limiter.count)
    /\ [][ \A h \in Handlers :
             (limiter.pc[h] = "get" /\ Cardinality(Outstanding) = limiter.count)
               => limiter'.pc[h] = "get" ]_vars

\* C16, witness: every token is out, held by two handlers, and a third
\* handler is waiting in getToken
C16_Witness ==
    /\ limiter.made /\ limiter.count = 2 /\ limiter.ch = 0
    /\ Cardinality(Outstanding) = 2
    /\ \E h \in Handlers : limiter.pc[h] = "get"

\* C17: DeleteTidb of an address that is in no entry of the pool, the pool
\* with no entry included, returns ErrTidbNotExist and leaves Tidbs,
\* TidbsWeights and the selection table as they were.
C17_DeleteAbsent ==
    (Running /\ oper.pc = "idle") =>
      \A p \in PoolNames : \A addr \in AddrKeys :
        Members(p, addr) = {} =>
          LET o == InitBalancerAfterDeleteTidb(addr, p)
          IN  /\ o.res = "ErrTidbNotExist"
              /\ o.Tidbs = Tidbs[p] /\ o.TidbsNil = TidbsNil[p]
              /\ o.TidbsWeights = TidbsWeights[p]
              /\ o.RoundRobinQ = RoundRobinQ[p]

\* the addresses handed to AddTidb that are not empty and not self
NonSelfInputs ==
    { a \in AddrInputs : Len(a) > 0 /\ AddrParts[a].addrAndWeight[1] # StrSelf }

\* C18: AddTidb of an address that is not self, when GetOnePod finds no pod
\* for it (none, or one labelled predelete), returns nil and leaves Tidbs,
\* TidbsWeights and the selection table as they were.
C18_AddTidbNoPod ==
    (Running /\ oper.pc = "idle") =>
      \A addr \in NonSelfInputs : \A p \in OperPools : \A open \in OpenDB :
        LET o == AddTidbCall(addr, p, FALSE, open)
        IN  /\ o.res = "nil"
            /\ ~o.added
            /\ o.TidbsWeights = TidbsWeights[p]
            /\ o.RoundRobinQ = RoundRobinQ[p]

\* the addresses handed to AddTidb whose @weight suffix is not a number
MalformedInputs ==
    { a \in AddrInputs : Len(AddrParts[a].addrAndWeight) = 2 /\ ~AddrParts[a].pf.ok }

\* C19: AddTidb of an address whose @weight suffix is not a number returns
\* the error of ParseFloat and leaves Tidbs, TidbsWeights, the selection
\* table and ProxyAsCompute as they were, whatever GetOnePod answers.
C19_AddTidbMalformedWeight ==
    (Running /\ oper.pc = "idle") =>
      \A addr \in MalformedInputs : \A p \in OperPools :
      \A pod \in GetOnePod : \A open \in OpenDB :
        LET o == AddTidbCall(addr, p, pod, open)
        IN  /\ o.res = "ErrSyntax"
            /\ ~o.added
            /\ o.TidbsWeights = TidbsWeights[p]
            /\ o.RoundRobinQ = RoundRobinQ[p]
            /\ o.ProxyAsCompute = ProxyAsCompute

\* C20: when UpDB failed (the dial or the probe), UpTidb returns the error,
\* leaves Tidbs with the entries it had, and the entry of the address is
\* still a DB (not nil), in state Down.
C20_UpTidbFailureKeepsMember ==
    (~crashed /\ oper.pc = "uplock" /\ oper.err) =>
      LET r == UpTidbLocked(oper.addr, oper.pool, oper.new, oper.err)
      IN  /\ r.res = "ErrOpen"
          /\ Len(r.Tidbs) = Len(Tidbs[oper.pool])
          /\ \A i \in Members(oper.pool, oper.addr) :
                r.Tidbs[i] # Nil /\ heap[r.Tidbs[i]].state = Down

\* C21 (as the code has it): CheckClusterSilence sends a scale-in request
\* only when len(tppool.Tidbs) > 1 on the sample that brings count to 15,
\* self counted; so with self and one other backend in the tp pool the
\* 15th quiet sample sends one.
C21_ScaleInNeedsTwoEntries ==
    /\ scale.in => scale.n > 1
    /\ (hist.run = Window /\ scale.n = 2 /\ scale.nonself = 1) => scale.in

\* C21, witness: a scale-in request sent with self and one other backend
\* in the tp pool
C21_Witness == scale.in /\ scale.n = 2 /\ scale.nonself = 1 /\ hist.run = Window

\* C21 (as the specification has it): a scale-in request is sent only when
\* the tp pool has more than one member that is not self.
C21_ScaleInNeedsTwoNonSelf == scale.in => scale.nonself > 1

\* C22: a sample that is not quiet sets count to 0 and sends a scale-out
\* request if and only if ProxyAsCompute is set and len(tppool.Tidbs) is 1;
\* a quiet sample sends no scale-out request.
C22_ScaleOut ==
    /\ ~scale.quiet =>
         /\ count = 0
         /\ scale.out <=> (ProxyAsCompute /\ scale.n = 1)
    /\ scale.quiet => ~scale.out

\* C22, witness: a sample that was not quiet, taken after quiet ones with
\* one entry in the tp pool, sent a scale-out request
C22_Witness ==
    /\ scale.out /\ ~scale.quiet /\ scale.n = 1 /\ hist.run = 0 /\ hist.gap < Window

\* C23: ProxyAsCompute is set only if a self DB has been added to a pool;
\* stated for the states before the first administrative call, where a
\* self DB that was added is still in its pool: there ProxyAsCompute is
\* set only if some pool has an entry with Self = true, so it is not set
\* when parseCluster has made the Cluster and added no member yet.
C23_ProxyAsComputeNeedsSelf ==
    (calls = 0 /\ ProxyAsCompute) =>
      \E p \in PoolNames : \E i \in 1..Len(Tidbs[p]) :
        Tidbs[p][i] # Nil /\ heap[Tidbs[p][i]].Self

\* the pool p has a member that is not self: one that a sweep has to probe
HasProbed(p) ==
    \E i \in 1..Len(Tidbs[p]) : Tidbs[p][i] # Nil /\ ~heap[Tidbs[p][i]].Self

\* C24: a health sweep does not end while a pool that it has not come to
\* yet has a member that is not self, whatever the other pools hold (one
\* with no member among them).
C24_SweepVisitsEveryPool ==
    [][ (~crashed /\ sweep.pc = "pool" /\ sweep'.pc = "sleep") =>
          \A k \in 1..Len(sweep.pools) : ~HasProbed(sweep.pools[k]) ]_vars

\* C25: no run of AddTidb, DeleteTidb, UpTidb and DownTidb, whatever the
\* probes and the dials answer, panics, and every entry of every pool's
\* Tidbs is a DB (not nil).
C25_NoCrash ==
    /\ ~crashed
    /\ \A p \in PoolNames : \A i \in 1..Len(Tidbs[p]) : Tidbs[p][i] # Nil

RECURSIVE SumSeq(_)
\* the sum of the numbers of s
SumSeq(s) == IF s = <<>> THEN 0 ELSE s[1] + SumSeq(Tail(s))

\* the indices of the entries of pool p that are Up
UpMembers(p) ==
    { i \in 1..Len(Tidbs[p]) : Tidbs[p][i] # Nil /\ heap[Tidbs[p][i]].state = Up }

\* C26: in every reachable state of every pool the total weight of the
\* selection table is the sum of the weights of the members that are Up,
\* after DownTidb and UpTidb as well.
C26_TableWeightIsUpWeight ==
    \A p \in PoolNames :
      /\ UpMembers(p) \subseteq 1..Len(TidbsWeights[p])
      /\ SumSeq(RoundRobinQ[p]) = SumSeq(KeepIf(TidbsWeights[p], UpMembers(p), 1))

\* the step is DownTidb's store of the state, made by an administrative
\* caller
DownTidbStep == ~crashed /\ oper.pc = "downstore" /\ oper'.pc = "idle"

\* C27: DownTidb changes the state of the DB with the address and nothing
\* else: Tidbs, TidbsWeights and the selection table are as they were; and
\* a member that is Down or ManualDown stays in Tidbs through every step
\* that is not a DeleteTidb.
C27_DownTidbFrame ==
    /\ [][ DownTidbStep =>
             /\ Tidbs' = Tidbs /\ TidbsNil' = TidbsNil
             /\ TidbsWeights' = TidbsWeights /\ RoundRobinQ' = RoundRobinQ
             /\ \A i \in ObjIds :
                  heap'[i] = IF i = oper.tgt THEN [heap[i] EXCEPT !.state = oper.state]
                             ELSE heap[i] ]_vars
    /\ [][ \A p \in PoolNames : \A a \in AddrKeys :
             ( /\ \E i \in Members(p, a) : heap[Tidbs[p][i]].state # Up
               /\ ret'.op # "DeleteTidb" )
               => Members(p, a)' # {} ]_vars

\* C28: while a ping of the health sweep or the Open and Ping of UpDB (in
\* UpTidb, called by the sweep or by an administrative caller) is in
\* progress, the goroutine holds no lock of any pool, shared or exclusive.
C28_ProbesOutsideLock ==
    \A t \in Threads : lk.th[t].pc \in { "ct_ping", "ud_open" } =>
      \A p \in PoolNames : ~Holds(t, p)

\* C28, witness: the sweep is waiting for a ping while an administrative
\* caller holds the exclusive lock of the same pool
C28_Witness ==
    /\ lk.th["sweep"].pc = "ct_ping"
    /\ lk.w[PoolOf("sweep")] = "adminA"

\* C29: while DeleteTidb is in its drain checks it holds no lock of any
\* pool, so the sweep's copy, AddTidb and another DeleteTidb on the same
\* pool take the lock as if no DeleteTidb were there.
C29_DrainOutsideLock ==
    \A t \in Threads : lk.th[t].pc = "del_drain" =>
      /\ \A p \in PoolNames : ~Holds(t, p)
      /\ \A u \in Threads \ {t} :
           (lk.th[u].pc \in { "ib_lock", "at_lock", "ut_lock" } /\ PoolOf(u) = PoolOf(t))
             => (CanLock(lk, PoolOf(u)) <=>
                   \A v \in Threads \ {t, u} : ~Holds(v, PoolOf(u)))

\* C29, witness: an administrative caller is in the drain checks of
\* DeleteTidb while another is inside InitBalancerAfterDeleteTidb on the
\* same pool, holding its exclusive lock
C29_Witness ==
    /\ lk.th["adminA"].pc = "del_drain" /\ lk.th["adminB"].pc = "ib_locked"
    /\ PoolOf("adminA") = PoolOf("adminB")
    /\ lk.w[PoolOf("adminA")] = "adminB"

\* C30: a goroutine that writes Tidbs, TidbsWeights or the table holds the
\* pool's exclusive lock; one that reads them (UpDB's weight lookup and the
\* autoscale loop's len(Tidbs) included) holds the shared or the exclusive
\* lock; and none holds the exclusive lock while it waits for the platform
\* or the network (AddTidb's GetOnePod and OpenDB included).
C30_LockDiscipline ==
    \A t \in Threads :
      /\ lk.th[t].pc \in WritesAt => lk.w[PoolOf(t)] = t
      /\ lk.th[t].pc \in ReadsAt => Holds(t, PoolOf(t))
      /\ lk.th[t].pc \in WaitsAt => lk.w[PoolOf(t)] # t


\* C31: once Online is false the loop of CheckCluster begins no sweep, and
\* as long as Online is true the loop is alive (it has not returned and the
\* process has not panicked), so that the next sweep comes after the sleep.
C31_SweepFollowsOnline ==
    [][ /\ (~Online /\ sweep.pc = "sleep") => sweep'.pc # "pool"
        /\ (boot' = 3 /\ Online') => (~crashed' /\ sweep'.pc # "done") ]_vars

\* C32: when the scaler answers a scale-in or scale-out request with an
\* error, that request was the only one of its tick, count is 0 as after a
\* request that was delivered, and the loop is at its sleep, from where
\* the next tick starts.
C32_ScalerFailureIgnored ==
    scale.err =>
      /\ scale.sent = 1
      /\ scale.in \/ scale.out
      /\ count = 0
      /\ scale.pc = "sleep"

\* C32, witness: the 15th quiet sample in a row sent a scale-in request
\* and the scaler answered with an error
C32_Witness == scale.err /\ scale.in /\ hist.run = Window /\ count = 0

\* a step in which UpTidb, under the lock, stores the DB of UpDB and returns
UpTidbStep == ~crashed /\ oper.pc = "uplock" /\ oper'.pc = "idle" /\ ~crashed'

\* C33: a member's weight and dbType do not change after it was added: an
\* UpTidb, whatever its dial answered, leaves every entry of Tidbs that
\* still has its address with the weight and the dbType that it had.
C33_WeightAndTypeFixed ==
    [][ UpTidbStep =>
          \A p \in PoolNames : \A a \in AddrKeys :
            \A i \in Members(p, a) \cap Members(p, a)' :
              /\ heap'[Tidbs'[p][i]].dbType = heap[Tidbs[p][i]].dbType
              /\ heap'[Tidbs'[p][i]].weight = heap[Tidbs[p][i]].weight ]_vars

\* C34: a DeleteTidb that removed a member, the only one of its pool
\* included, has called CanDelete before it returned, until usingConnsCount
\* was read as 0 or RetryAttempts times.
C34_DrainForEveryRemoved ==
    (ret.op = "DeleteTidb" /\ ret.res = "nil") =>
      /\ hist.drain.checks >= 1
      /\ hist.drain.zero \/ hist.drain.checks = RetryAttempts

\* C35: AddTidb admits a member only with a positive weight: an address
\* whose @weight suffix is zero, negative or not a number adds nothing to
\* Tidbs and TidbsWeights, the weight of an admitted member is positive,
\* and it is 1.0 when the address has no suffix.
C35_OnlyPositiveWeights ==
    (Running /\ oper.pc = "idle") =>
      \A addr \in WeightInputs : \A pod \in GetOnePod : \A open \in OpenDB :
        LET o == AddTidbCall(addr, TiDBForTP, pod, open)
            aw == AddrParts[addr].addrAndWeight
            pf == AddrParts[addr].pf
        IN  /\ o.added => o.TidbsWeights[Len(o.TidbsWeights)] > 0
            /\ (o.added /\ Len(aw) = 1) =>
                  o.TidbsWeights[Len(o.TidbsWeights)] = DefaultWeight
            /\ (Len(aw) = 2 /\ (~pf.ok \/ pf.val <= 0)) =>
                  /\ ~o.added
                  /\ o.TidbsWeights = TidbsWeights[TiDBForTP]

\* the results of AddTidb that are errors
AddTidbErrors == { "ErrAddressNull", "ErrTidbExist", "ErrSyntax", "ErrOpen" }

\* C36: an AddTidb that returns an error, whichever it is, leaves Tidbs,
\* TidbsWeights, the selection table and ProxyAsCompute as they were
\* before the call.
C36_FailedAddChangesNothing ==
    (Running /\ oper.pc = "idle") =>
      \A addr \in AddrInputs : \A p \in OperPools :
      \A pod \in GetOnePod : \A open \in OpenDB :
        LET o == AddTidbCall(addr, p, pod, open)
        IN  o.res \in AddTidbErrors =>
              /\ ~o.added
              /\ o.Tidbs = Tidbs[p]
              /\ o.TidbsWeights = TidbsWeights[p]
              /\ o.RoundRobinQ = RoundRobinQ[p]
              /\ o.ProxyAsCompute = ProxyAsCompute

\* C37: a DeleteTidb called, right after an AddTidb that admitted a member,
\* with the address string of that AddTidb (its @weight suffix included)
\* and the same class returns nil and leaves Tidbs and TidbsWeights of the
\* pool as they were before the AddTidb.
C37_AddDeleteRoundTrip ==
    (hist.round.del /\ ~crashed) =>
      /\ ret = Returned("DeleteTidb", "nil")
      /\ MemberDBs(hist.round.pool) = hist.round.dbs
      /\ TidbsWeights[hist.round.pool] = hist.round.weights

====
